---- MODULE Spec2Model ----
(***************************************************************************)
(* Luxor swap / stake program (programs/luxor-swap): the constant-product  *)
(* pricing engine (curve/calculator.rs, curve/constant_product.rs) and the *)
(* reward-index state machine driven by the instructions purchase,         *)
(* manual_purchase, redeem, blacklist, buyback, emergency_withdraw and     *)
(* update_config.                                                          *)
(*                                                                         *)
(* Numbers.  The program works on u64 / u128 with checked arithmetic; the  *)
(* amounts of the model are small naturals, far below 2^64, so a checked   *)
(* overflow never fires inside the bounds and only checked_sub underflow   *)
(* and division by zero are modelled (as the failure of the instruction).  *)
(* PRECISION is 10^9 in lib.rs; the model keeps the symbol and every       *)
(* formula of the source, but scales the value down so that the products   *)
(* staked * index stay inside the integers of the model checker.           *)
(***************************************************************************)
EXTENDS Integers, Naturals, Sequences, FiniteSets, TLC

\* ---------------------------------------------------------------- constants

\* lib.rs: pub const PRECISION: u128 = 1_000_000_000 (scaled, see above)
PRECISION == 2

\* curve/fees.rs: FEE_RATE_DENOMINATOR_VALUE, the denominator of every rate
FEE_RATE_DENOMINATOR_VALUE == 1000000

\* the literal rates the instructions pass to the calculator
TRADE_FEE_RATE == 2500
PROTOCOL_FEE_RATE == 120000
FUND_FEE_RATE == 40000
CREATOR_FEE_RATE == 500

\* Rent::get()?.minimum_balance(size_of::<StakeStateV2>()), a positive amount
MinRent == 1

\* ------------------------------------------------------------------- bounds

\* principals that own a UserStakeInfo record (the administrative sink record
\* is the second holder of stake)
Users == {"u1"}

\* largest reserve of the simulated pair, largest amount priced on it
MaxReserve == 20
MaxSwapAmount == 8

\* caps on the counters of the reward machine
MaxStaked == 6
MaxStakeCount == 2
MaxBuybacks == 1
MaxLamports == 16
MaxSplitLamports == 13

\* inputs of the instructions and of the environment
LxrAmounts == {10}
MaxSolAmounts == {1, 50}
ManualLxrAmounts == {10}
ManualSolAmounts == {3}
Holdings == {0, 10}
PurchasePools == {<<10, 100>>}
BuybackPools == {<<10, 10>>}
RewardSteps == {8}
DonationSteps == {4}
TreasuryRates == {0, 250000}
EmergencyParams == 0..5

\* update_config: the hardcoded program admin (crate::admin::id()), the keys
\* that sign, the key passed in remaining_accounts[0] ("missing": no account,
\* "default": Pubkey::default()), the selectors and the values
ProgramAdmin == "admin"
Signers == {"admin", "mallory"}
NewAdmins == {"missing", "default", "mallory"}
ConfigParams == 0..7
ConfigValues == {0, 1}
EmergencyVaults == {"treasury", "reward"}
EmergencyValues == {8}

\* --------------------------------------------------------------- arithmetic

\* utils::CheckedCeilDiv for a positive divisor
CeilDiv(a, b) == (a + b - 1) \div b

\* ---------------------------------------------------------------- FeeModel

\* fees.rs ceil_div / floor_div helpers
FeeCeilDiv(token_amount, fee_numerator, fee_denominator) ==
    (token_amount * fee_numerator + fee_denominator - 1) \div fee_denominator

FeeFloorDiv(token_amount, fee_numerator, fee_denominator) ==
    (token_amount * fee_numerator) \div fee_denominator

\* Fees::trading_fee
trading_fee(amount, trade_fee_rate) ==
    FeeCeilDiv(amount, trade_fee_rate, FEE_RATE_DENOMINATOR_VALUE)

\* Fees::protocol_fee, taken from the trading fee
protocol_fee(amount, protocol_fee_rate) ==
    FeeFloorDiv(amount, protocol_fee_rate, FEE_RATE_DENOMINATOR_VALUE)

\* Fees::fund_fee, taken from the trading fee
fund_fee(amount, fund_fee_rate) ==
    FeeFloorDiv(amount, fund_fee_rate, FEE_RATE_DENOMINATOR_VALUE)

\* Fees::creator_fee
creator_fee(amount, creator_fee_rate) ==
    FeeCeilDiv(amount, creator_fee_rate, FEE_RATE_DENOMINATOR_VALUE)

\* Fees::split_creator_fee: the creator's part of a combined trade+creator fee
split_creator_fee(total_fee, trade_fee_rate, creator_fee_rate) ==
    FeeFloorDiv(total_fee, creator_fee_rate, trade_fee_rate + creator_fee_rate)

\* Fees::calculate_pre_fee_amount: the inverse, by ceiling division
calculate_pre_fee_amount(post_fee_amount, fee_rate) ==
    IF fee_rate = 0
    THEN post_fee_amount
    ELSE CeilDiv(post_fee_amount * FEE_RATE_DENOMINATOR_VALUE,
                 FEE_RATE_DENOMINATOR_VALUE - fee_rate)

\* ------------------------------------------------------------- CurveEngine

\* ConstantProductCurve::swap_base_input_without_fees; the caller guards the
\* zero denominator (checked_div(0).unwrap() aborts the instruction)
swap_base_input_without_fees_ceil(input_amount, input_vault_amount, output_vault_amount) ==
    CeilDiv(input_amount * output_vault_amount, input_vault_amount + input_amount)

swap_base_input_without_fees(input_amount, input_vault_amount, output_vault_amount) ==
    (input_amount * output_vault_amount) \div (input_vault_amount + input_amount)

\* ConstantProductCurve::swap_base_output_without_fees; the caller guards
\* output_amount < output_vault_amount (checked_sub / checked_ceil_div unwrap)
swap_base_output_without_fees_floor(output_amount, input_vault_amount, output_vault_amount) ==
    (input_vault_amount * output_amount) \div (output_vault_amount - output_amount)

swap_base_output_without_fees(output_amount, input_vault_amount, output_vault_amount) ==
    CeilDiv(input_vault_amount * output_amount, output_vault_amount - output_amount)

\* -------------------------------------------------------------- SwapPricer

\* Option<SwapResult>: ok = FALSE is None, or the abort of an unwrap
NoSwapResult ==
    [ok |-> FALSE, new_input_vault_amount |-> 0, new_output_vault_amount |-> 0,
     input_amount |-> 0, output_amount |-> 0, trade_fee |-> 0,
     protocol_fee |-> 0, fund_fee |-> 0, creator_fee |-> 0]

\* CurveCalculator::swap_base_input
swap_base_input(input_amount, input_vault_amount, output_vault_amount, trade_fee_rate, creator_fee_rate, protocol_fee_rate, fund_fee_rate, is_creator_fee_on_input) ==
    LET tfee == trading_fee(input_amount, trade_fee_rate)
        cfee_in == IF is_creator_fee_on_input
                   THEN creator_fee(input_amount, creator_fee_rate) ELSE 0
        input_amount_less_fees == input_amount - tfee - cfee_in
    IN  IF input_amount_less_fees < 0 \/ input_vault_amount + input_amount_less_fees = 0
        THEN NoSwapResult
        ELSE
        LET output_amount_swapped ==
                swap_base_input_without_fees(input_amount_less_fees,
                                             input_vault_amount, output_vault_amount)
            cfee == IF is_creator_fee_on_input THEN cfee_in
                    ELSE creator_fee(output_amount_swapped, creator_fee_rate)
            out == IF is_creator_fee_on_input THEN output_amount_swapped
                   ELSE output_amount_swapped - cfee
        IN  IF out < 0 \/ output_vault_amount - output_amount_swapped < 0
            THEN NoSwapResult
            ELSE [ok |-> TRUE,
                  new_input_vault_amount |-> input_vault_amount + input_amount_less_fees,
                  new_output_vault_amount |-> output_vault_amount - output_amount_swapped,
                  input_amount |-> input_amount,
                  output_amount |-> out,
                  trade_fee |-> tfee,
                  protocol_fee |-> protocol_fee(tfee, protocol_fee_rate),
                  fund_fee |-> fund_fee(tfee, fund_fee_rate),
                  creator_fee |-> cfee]

\* an output that is never grossed up by the creator fee
actual_output_amount_net(output_amount, creator_fee_rate, is_creator_fee_on_input) ==
    output_amount

\* calculator.rs 157-164: the amount that leaves the output vault
actual_output_amount(output_amount, creator_fee_rate, is_creator_fee_on_input) ==
    IF is_creator_fee_on_input THEN output_amount
    ELSE calculate_pre_fee_amount(output_amount, creator_fee_rate)

\* CurveCalculator::swap_base_output.  swap_base_output_without_fees unwraps
\* checked_sub and checked_ceil_div (constant_product.rs 40-41): the call
\* aborts when the amount leaving the vault is not below the vault amount.
swap_base_output(output_amount, input_vault_amount, output_vault_amount, trade_fee_rate, creator_fee_rate, protocol_fee_rate, fund_fee_rate, is_creator_fee_on_input) ==
    LET actual == actual_output_amount(output_amount, creator_fee_rate,
                                       is_creator_fee_on_input)
    IN  IF actual >= output_vault_amount
        THEN NoSwapResult
        ELSE
        LET input_amount_swapped ==
                swap_base_output_without_fees(actual,
                                              input_vault_amount, output_vault_amount)
            input_amount_with_fee ==
                IF is_creator_fee_on_input
                THEN calculate_pre_fee_amount(input_amount_swapped,
                                              trade_fee_rate + creator_fee_rate)
                ELSE calculate_pre_fee_amount(input_amount_swapped, trade_fee_rate)
            total_fee == input_amount_with_fee - input_amount_swapped
            cfee == IF is_creator_fee_on_input
                    THEN split_creator_fee(total_fee, trade_fee_rate, creator_fee_rate)
                    ELSE actual - output_amount
            tfee == IF is_creator_fee_on_input THEN total_fee - cfee ELSE total_fee
        IN  [ok |-> TRUE,
             new_input_vault_amount |-> input_vault_amount + input_amount_swapped,
             new_output_vault_amount |-> output_vault_amount - actual,
             input_amount |-> input_amount_with_fee,
             output_amount |-> output_amount,
             trade_fee |-> tfee,
             protocol_fee |-> protocol_fee(tfee, protocol_fee_rate),
             fund_fee |-> fund_fee(tfee, fund_fee_rate),
             creator_fee |-> cfee]

\* ------------------------------------------------------------------- state

VARIABLES
    global_config,        \* GlobalConfig (states/global_config.rs)
    stake_info,           \* StakeInfo (states/stake_info.rs)
    user_stake_info,      \* UserStakeInfo per principal (states/user_stake_info.rs)
    admin_stake_info,     \* the administrative sink record (ADMIN_STAKE_INFO_SEED)
    stake_pda_lamports,   \* lamports of the protocol stake account
    stake_split_lamports, \* lamports of the ephemeral split account of this cycle
    luxor_vault,          \* LXR treasury vault balance
    luxor_reward_vault,   \* LXR reward vault balance
    outcome,              \* result of the last instruction (error code, amounts moved)
    reserve_0,            \* simulated reserve pair priced by the calculator
    reserve_1,
    swap_result,          \* the SwapResult of the last priced swap on the pair
    round_trip            \* exact-input amount and the exact-output requirement for its output

vars == <<global_config, stake_info, user_stake_info, admin_stake_info,
          stake_pda_lamports, stake_split_lamports, luxor_vault,
          luxor_reward_vault, outcome, reserve_0, reserve_1, swap_result,
          round_trip>>

machine_vars == <<global_config, stake_info, user_stake_info, admin_stake_info,
                  stake_pda_lamports, stake_split_lamports, luxor_vault,
                  luxor_reward_vault, outcome>>

curve_vars == <<reserve_0, reserve_1, swap_result, round_trip>>

\* UserStakeInfo::default(); owner = FALSE stands for Pubkey::default()
DefaultUserStakeInfo ==
    [owner |-> FALSE, total_staked_sol |-> 0, total_lxr_claimed |-> 0,
     total_lxr_forfeited |-> 0, base_lxr_holdings |-> 0,
     lxr_reward_per_token_completed |-> 0, lxr_rewards_pending |-> 0,
     blacklisted_sol |-> 0]

\* StakeInfo as initialise_configs leaves it: zeroed, the stake account's
\* rent recorded as the last observed balance (timestamps and bump left out)
InitialStakeInfo ==
    [total_staked_sol |-> 0, total_stake_count |-> 0,
     total_sol_rewards_accrued |-> 0, last_tracked_sol_balance |-> MinRent,
     reward_per_token_sol_stored |-> 0, total_luxor_rewards_accrued |-> 0,
     total_sol_used_for_buyback |-> 0, reward_per_token_lxr_stored |-> 0,
     total_lxr_claimed |-> 0, total_lxr_forfeited |-> 0,
     buyback_count |-> 0, buyback_requested |-> FALSE]

\* GlobalConfig as initialise_configs writes it from its arguments
InitialGlobalConfig(fee_treasury_rate) ==
    [admin |-> ProgramAdmin,
     bonus_rate |-> 500000, max_stake_count_to_get_bonus |-> 1,
     min_swap_amount |-> 10, max_swap_amount |-> 20,
     fee_treasury_rate |-> fee_treasury_rate,
     purchase_enabled |-> TRUE, redeem_enabled |-> TRUE,
     initial_lxr_allocation_vault |-> 40]

NoOutcome ==
    [op |-> "init", err |-> "Ok", user |-> "none", holdings |-> 0,
     claim |-> 0, paid |-> 0, forfeited |-> 0,
     max_sol_amount |-> 0, total_sol_needed |-> 0,
     param |-> 0, value |-> 0, issued |-> <<>>,
     lxr_to_purchase |-> 0, pool |-> <<0, 0>>]

NoRoundTrip == [done |-> FALSE, ok |-> FALSE, amount |-> 0, output |-> 0, required |-> 0]

NoPricedSwap ==
    [kind |-> "none", reserve_in |-> 0, reserve_out |-> 0,
     creator_fee_rate |-> 0, is_creator_fee_on_input |-> FALSE,
     result |-> NoSwapResult]

InitMachine ==
    /\ \E rate \in TreasuryRates : global_config = InitialGlobalConfig(rate)
    /\ stake_info = InitialStakeInfo
    /\ user_stake_info = [u \in Users |-> DefaultUserStakeInfo]
    /\ admin_stake_info = DefaultUserStakeInfo
    /\ stake_pda_lamports = MinRent
    /\ stake_split_lamports = 0
    /\ luxor_vault = 40
    /\ luxor_reward_vault = 0
    /\ outcome = NoOutcome

\* the simulated pair is not traded by the instructions
IdleCurve ==
    /\ reserve_0 = 0
    /\ reserve_1 = 0
    /\ swap_result = NoPricedSwap
    /\ round_trip = NoRoundTrip

Init == InitMachine /\ IdleCurve

\* ------------------------------------------------------------- RewardIndex

\* the token amount owed for an index delta, divided by PRECISION twice
\* (redeem.rs 118-121, blacklist.rs 107-110 and 127-130)
lxr_rewards_to_claim_single(total_staked_sol, reward_per_token_lxr_pending) ==
    (total_staked_sol * reward_per_token_lxr_pending) \div PRECISION

\* the same amount rounded up instead of down
lxr_rewards_to_claim_ceil(total_staked_sol, reward_per_token_lxr_pending) ==
    (total_staked_sol * reward_per_token_lxr_pending + PRECISION * PRECISION - 1)
        \div (PRECISION * PRECISION)

lxr_rewards_to_claim(total_staked_sol, reward_per_token_lxr_pending) ==
    ((total_staked_sol * reward_per_token_lxr_pending) \div PRECISION) \div PRECISION

\* the token amount manual_purchase credits to an existing principal: one
\* division by PRECISION only (manual_purchase.rs 223-225)
lxr_rewards_to_claim_manual(total_staked_sol, reward_per_token_lxr_pending) ==
    (total_staked_sol * reward_per_token_lxr_pending) \div PRECISION

\* a checkpoint that starts at the origin of the index
checkpoint_at_origin(si) == 0

\* the checkpoint taken from the SOL index instead of the token index
checkpoint_at_sol(si) == si.reward_per_token_sol_stored

\* purchase.rs 325, manual_purchase.rs 217 and 229, blacklist.rs 99, 119 and
\* 134: the value a record's checkpoint is set to is the current global token
\* index
checkpoint_at(si) == si.reward_per_token_lxr_stored

\* a settlement that charges the bought tokens to the index instead of
\* crediting them
reward_per_token_lxr_after_charged(stored, lxr_bought, total_staked_sol) ==
    stored - (lxr_bought * PRECISION) \div total_staked_sol

\* buyback.rs 332-339: the global token index after a settlement
reward_per_token_lxr_after(stored, lxr_bought, total_staked_sol) ==
    stored + (lxr_bought * PRECISION) \div total_staked_sol

\* an observation that skips the index instead of aborting while nothing is
\* staked
ObserveSkipEmpty(si, lamports, with_index) ==
    IF lamports > si.last_tracked_sol_balance
    THEN LET rewards_accured == lamports - si.last_tracked_sol_balance
         IN  [ok |-> TRUE,
              si |-> [si EXCEPT
                 !.total_sol_rewards_accrued = @ + rewards_accured,
                 !.last_tracked_sol_balance = lamports,
                 !.reward_per_token_sol_stored =
                     IF with_index /\ si.total_staked_sol # 0
                     THEN @ + (rewards_accured * PRECISION) \div si.total_staked_sol
                     ELSE @]]
    ELSE [ok |-> TRUE, si |-> si]

\* an observation that accrues the balance difference but forgets to move the
\* last-observed balance
ObserveNoTrack(si, lamports, with_index) ==
    IF lamports > si.last_tracked_sol_balance
    THEN LET rewards_accured == lamports - si.last_tracked_sol_balance
         IN  IF with_index /\ si.total_staked_sol = 0
             THEN [ok |-> FALSE, si |-> si]
             ELSE [ok |-> TRUE,
                   si |-> [si EXCEPT
                      !.total_sol_rewards_accrued = @ + rewards_accured,
                      !.reward_per_token_sol_stored =
                          IF with_index
                          THEN @ + (rewards_accured * PRECISION) \div si.total_staked_sol
                          ELSE @]]
    ELSE [ok |-> TRUE, si |-> si]

\* the custodial-balance observation of purchase.rs 266-277 and
\* buyback.rs 476-496; with_index = FALSE is manual_purchase.rs 161-167,
\* which leaves the native-asset index alone.  ok = FALSE is the abort of
\* checked_div(0).unwrap() when nothing is staked.
Observe(si, lamports, with_index) ==
    IF lamports > si.last_tracked_sol_balance
    THEN LET rewards_accured == lamports - si.last_tracked_sol_balance
         IN  IF with_index /\ si.total_staked_sol = 0
             THEN [ok |-> FALSE, si |-> si]
             ELSE [ok |-> TRUE,
                   si |-> [si EXCEPT
                      !.total_sol_rewards_accrued = @ + rewards_accured,
                      !.last_tracked_sol_balance = lamports,
                      !.reward_per_token_sol_stored =
                          IF with_index
                          THEN @ + (rewards_accured * PRECISION) \div si.total_staked_sol
                          ELSE @]]
    ELSE [ok |-> TRUE, si |-> si]

\* -------------------------------------------------------- RedemptionEngine

\* a token transfer that is never refused
insufficient_funds_never(vault_amount, amount) == FALSE

\* redeem.rs 153-176, emergency_withdraw.rs 181-190: the token program
\* refuses a transfer of more than the source vault holds
insufficient_funds(vault_amount, amount) == vault_amount < amount

\* redeem.rs 124-136: the pro-rata forfeiture
ProRateInverted(full_rewards, lxr_holdings, base_lxr_holdings) ==
    IF base_lxr_holdings < lxr_holdings /\ base_lxr_holdings > 0
    THEN LET kept == (base_lxr_holdings * full_rewards) \div lxr_holdings
         IN  [kept |-> kept, forfieted_lxr |-> full_rewards - kept]
    ELSE [kept |-> full_rewards, forfieted_lxr |-> 0]

ProRateCeil(full_rewards, lxr_holdings, base_lxr_holdings) ==
    IF lxr_holdings < base_lxr_holdings
    THEN LET kept == CeilDiv(lxr_holdings * full_rewards, base_lxr_holdings)
         IN  [kept |-> kept, forfieted_lxr |-> full_rewards - kept]
    ELSE [kept |-> full_rewards, forfieted_lxr |-> 0]

ProRate(full_rewards, lxr_holdings, base_lxr_holdings) ==
    IF lxr_holdings < base_lxr_holdings
    THEN LET kept == (lxr_holdings * full_rewards) \div base_lxr_holdings
         IN  [kept |-> kept, forfieted_lxr |-> full_rewards - kept]
    ELSE [kept |-> full_rewards, forfieted_lxr |-> 0]

\* a redemption that pays a stored pending balance although the index has
\* not moved past the checkpoint
RedeemAmountsPendingFirst(usi, global_index, lxr_holdings) ==
    LET reward_per_token_lxr_pending == global_index - usi.lxr_reward_per_token_completed
        full == lxr_rewards_to_claim(usi.total_staked_sol, reward_per_token_lxr_pending)
        pr == ProRate(full, lxr_holdings, usi.base_lxr_holdings)
    IN  IF reward_per_token_lxr_pending < 0 THEN
            [err |-> "Panic", claim |-> 0, paid |-> 0, forfeited |-> 0]
        ELSE IF full = 0 /\ usi.lxr_rewards_pending = 0 THEN
            [err |-> "NoRewardsToClaim", claim |-> 0, paid |-> 0, forfeited |-> 0]
        ELSE
            [err |-> "Ok", claim |-> full,
             paid |-> pr.kept + usi.lxr_rewards_pending,
             forfeited |-> pr.forfieted_lxr]

\* redeem.rs 111-139: the amounts of one redemption
RedeemAmounts(usi, global_index, lxr_holdings) ==
    LET reward_per_token_lxr_pending == global_index - usi.lxr_reward_per_token_completed
        full == lxr_rewards_to_claim(usi.total_staked_sol, reward_per_token_lxr_pending)
        pr == ProRate(full, lxr_holdings, usi.base_lxr_holdings)
    IN  IF reward_per_token_lxr_pending < 0 THEN
            [err |-> "Panic", claim |-> 0, paid |-> 0, forfeited |-> 0]
        ELSE IF reward_per_token_lxr_pending = 0 \/ full = 0 THEN
            [err |-> "NoRewardsToClaim", claim |-> 0, paid |-> 0, forfeited |-> 0]
        ELSE
            [err |-> "Ok", claim |-> full,
             paid |-> pr.kept + usi.lxr_rewards_pending,
             forfeited |-> pr.forfieted_lxr]

\* ---------------------------------------------------------- PurchasePolicy

\* a purchase gate that is always open
purchase_gate_open(gc) == TRUE

\* purchase.rs 30-36: constraint = global_config.purchase_enabled
purchase_gate(gc) == gc.purchase_enabled

\* a bonus tier that closes one purchase early
in_bonus_tier_strict(total_stake_count, gc) ==
    total_stake_count + 1 < gc.max_stake_count_to_get_bonus

\* purchase.rs 247: the tier is chosen from the count before its increment
in_bonus_tier(total_stake_count, gc) ==
    total_stake_count + 1 <= gc.max_stake_count_to_get_bonus

\* a limit check that tolerates up to twice the payer's limit
exceeds_limit_doubled(max_sol_amount, total_sol_needed) ==
    2 * max_sol_amount < total_sol_needed

\* purchase.rs 262: require_gte!(max_sol_amount, total_sol_needed)
exceeds_limit(max_sol_amount, total_sol_needed) ==
    max_sol_amount < total_sol_needed

\* purchase.rs 179-263: the native-asset requirement of a purchase
PurchaseQuote(lxr_to_purchase, pool, creator_fee_rate, is_creator_fee_on_input, gc, total_stake_count, vault_amount) ==
    LET result == swap_base_output(lxr_to_purchase, pool[1], pool[2],
                                   TRADE_FEE_RATE, creator_fee_rate,
                                   PROTOCOL_FEE_RATE, FUND_FEE_RATE,
                                   is_creator_fee_on_input)
        raw == result.input_amount
        bonus == raw - (raw * gc.bonus_rate) \div FEE_RATE_DENOMINATOR_VALUE
    IN  IF lxr_to_purchase = 0 THEN [err |-> "RequireGtViolated", total_sol_needed |-> 0]
        ELSE IF ~result.ok THEN [err |-> "Panic", total_sol_needed |-> 0]
        ELSE IF result.output_amount # lxr_to_purchase
            THEN [err |-> "RequireEqViolated", total_sol_needed |-> 0]
        ELSE IF result.new_input_vault_amount * result.new_output_vault_amount
                    < pool[1] * pool[2]
            THEN [err |-> "RequireGteViolated", total_sol_needed |-> 0]
        ELSE IF in_bonus_tier(total_stake_count, gc)
            THEN IF bonus < 0 THEN [err |-> "Panic", total_sol_needed |-> 0]
                 ELSE [err |-> "Ok", total_sol_needed |-> bonus]
        ELSE IF gc.initial_lxr_allocation_vault = 0
            THEN [err |-> "Panic", total_sol_needed |-> 0]
        ELSE [err |-> "Ok",
              total_sol_needed |-> (raw * vault_amount) \div gc.initial_lxr_allocation_vault]

\* ------------------------------------------------------------ instructions

\* an instruction that returns an error or aborts: the transaction is rolled
\* back, nothing but the reported result changes
Fail(op, user, err) ==
    /\ outcome' = [NoOutcome EXCEPT !.op = op, !.err = err]
    /\ UNCHANGED <<global_config, stake_info, user_stake_info, admin_stake_info,
                   stake_pda_lamports, stake_split_lamports, luxor_vault,
                   luxor_reward_vault>>

\* the same for an instruction that had already invoked other programs when
\* it failed: `issued` lists those invocations in program order
FailAfter(op, user, err, issued) ==
    /\ outcome' = [NoOutcome EXCEPT !.op = op, !.err = err, !.issued = issued]
    /\ UNCHANGED <<global_config, stake_info, user_stake_info, admin_stake_info,
                   stake_pda_lamports, stake_split_lamports, luxor_vault,
                   luxor_reward_vault>>

\* buyback.rs 234-257: the settlement withdraws the sub-account, moves the
\* amount to the wrapped-SOL account and syncs it before it computes the fee
SettleIssued == <<"stake_withdraw", "transfer", "sync_native">>

\* buyback.rs 455-466: the request creates the sub-account before it observes
\* the custodial balance
RequestIssued == <<"create_account">>

\* purchase.rs 279-310: the payment and the delegation come before the record
\* updates and the token transfer
PurchaseIssued == <<"transfer", "delegate_stake">>

Succeed(op, user) == [NoOutcome EXCEPT !.op = op, !.user = user]

\* the validator pays staking rewards into the protocol stake account
StakeRewards ==
    \E r \in RewardSteps :
        /\ stake_pda_lamports + r <= MaxLamports
        /\ stake_pda_lamports' = stake_pda_lamports + r
        /\ outcome' = Succeed("stake_rewards", "none")
        /\ UNCHANGED <<global_config, stake_info, user_stake_info, admin_stake_info,
                       stake_split_lamports, luxor_vault, luxor_reward_vault>>
        /\ UNCHANGED curve_vars

\* lamports arrive in the deactivating split account between request and
\* settlement (a plain transfer by anyone)
FundSplit ==
    \E d \in DonationSteps :
        /\ stake_info.buyback_requested
        /\ stake_split_lamports + d <= MaxSplitLamports
        /\ stake_split_lamports' = stake_split_lamports + d
        /\ outcome' = Succeed("fund_split", "none")
        /\ UNCHANGED <<global_config, stake_info, user_stake_info, admin_stake_info,
                       stake_pda_lamports, luxor_vault, luxor_reward_vault>>
        /\ UNCHANGED curve_vars

\* (pool_state.adjust_creator_fee_rate(500), is_creator_fee_on_input) as the
\* pool state reports them: all placements, and the one the market the
\* instructions trade against is configured with
CreatorModes == {<<0, TRUE>>, <<CREATOR_FEE_RATE, TRUE>>, <<CREATOR_FEE_RATE, FALSE>>}
PoolCreatorModes == {<<CREATOR_FEE_RATE, FALSE>>}

\* a record of the balance taken before the deposit arrived
tracked_after_deposit_stale(lamports, deposit) == lamports

\* purchase.rs 317, manual_purchase.rs 209: last_tracked_sol_balance is read
\* off the stake account after the deposit has been transferred into it
tracked_after_deposit(lamports, deposit) == lamports + deposit

\* purchase.rs 178-352
PurchaseOn(pools) ==
    \E u \in Users, lxr_to_purchase \in LxrAmounts, max_sol_amount \in MaxSolAmounts,
       pool \in pools, cm \in PoolCreatorModes :
    LET q == PurchaseQuote(lxr_to_purchase, pool, cm[1], cm[2], global_config,
                           stake_info.total_stake_count, luxor_vault)
        total_sol_needed == q.total_sol_needed
        obs == Observe(stake_info, stake_pda_lamports, TRUE)
        usi == user_stake_info[u]
    IN  /\ UNCHANGED curve_vars
        /\ IF ~purchase_gate(global_config) THEN Fail("purchase", u, "PurchaseDisabled")
           ELSE IF q.err # "Ok"
               THEN /\ outcome' = [NoOutcome EXCEPT
                          !.op = "purchase", !.err = q.err,
                          !.lxr_to_purchase = lxr_to_purchase, !.pool = pool]
                    /\ UNCHANGED <<global_config, stake_info, user_stake_info,
                                   admin_stake_info, stake_pda_lamports,
                                   stake_split_lamports, luxor_vault,
                                   luxor_reward_vault>>
           ELSE IF exceeds_limit(max_sol_amount, total_sol_needed)
               THEN /\ outcome' = [NoOutcome EXCEPT
                          !.op = "purchase", !.err = "RequireGteViolated",
                          !.max_sol_amount = max_sol_amount,
                          !.total_sol_needed = total_sol_needed]
                    /\ UNCHANGED <<global_config, stake_info, user_stake_info,
                                   admin_stake_info, stake_pda_lamports,
                                   stake_split_lamports, luxor_vault,
                                   luxor_reward_vault>>
           ELSE IF ~obs.ok THEN Fail("purchase", u, "Panic")
           ELSE IF luxor_vault < lxr_to_purchase
               THEN FailAfter("purchase", u, "InsufficientFunds", PurchaseIssued)
           ELSE
             /\ stake_info.total_staked_sol + total_sol_needed <= MaxStaked
             /\ stake_info.total_stake_count < MaxStakeCount
             /\ stake_pda_lamports + total_sol_needed <= MaxLamports
             /\ stake_pda_lamports' = stake_pda_lamports + total_sol_needed
             /\ stake_info' = [obs.si EXCEPT
                    !.total_staked_sol = @ + total_sol_needed,
                    !.total_stake_count = @ + 1,
                    !.last_tracked_sol_balance =
                        tracked_after_deposit(stake_pda_lamports, total_sol_needed)]
             /\ user_stake_info' = [user_stake_info EXCEPT ![u] =
                    [usi EXCEPT
                       !.owner = TRUE,
                       !.lxr_reward_per_token_completed =
                           IF usi.owner THEN @ ELSE checkpoint_at(stake_info),
                       !.total_staked_sol = @ + total_sol_needed,
                       !.base_lxr_holdings = @ + lxr_to_purchase]]
             /\ luxor_vault' = luxor_vault - lxr_to_purchase
             /\ outcome' = [Succeed("purchase", u) EXCEPT
                                !.paid = total_sol_needed,
                                !.max_sol_amount = max_sol_amount,
                                !.total_sol_needed = total_sol_needed,
                                !.lxr_to_purchase = lxr_to_purchase,
                                !.pool = pool]
             /\ UNCHANGED <<global_config, admin_stake_info, stake_split_lamports,
                            luxor_reward_vault>>

\* the purchases of a run, priced on the market's pool
Purchase == PurchaseOn(PurchasePools)

\* manual_purchase.rs 134-245
ManualPurchase ==
    \E u \in Users, lxr_purchased \in ManualLxrAmounts, sol_spent \in ManualSolAmounts :
    LET obs == Observe(stake_info, stake_pda_lamports, FALSE)
        usi == user_stake_info[u]
        pending_delta == stake_info.reward_per_token_lxr_stored
                            - usi.lxr_reward_per_token_completed
    IN  /\ UNCHANGED curve_vars
        /\ IF usi.owner /\ pending_delta < 0 THEN Fail("manual_purchase", u, "Panic")
           ELSE
             /\ stake_info.total_staked_sol + sol_spent <= MaxStaked
             /\ stake_pda_lamports + sol_spent <= MaxLamports
             /\ stake_pda_lamports' = stake_pda_lamports + sol_spent
             /\ stake_info' = [obs.si EXCEPT
                    !.total_staked_sol = @ + sol_spent,
                    !.last_tracked_sol_balance =
                        tracked_after_deposit(stake_pda_lamports, sol_spent)]
             /\ user_stake_info' = [user_stake_info EXCEPT ![u] =
                    [usi EXCEPT
                       !.owner = TRUE,
                       !.lxr_rewards_pending =
                           IF usi.owner
                           THEN @ + lxr_rewards_to_claim_manual(usi.total_staked_sol,
                                                                pending_delta)
                           ELSE @,
                       !.lxr_reward_per_token_completed =
                           checkpoint_at(stake_info),
                       !.total_staked_sol = @ + sol_spent,
                       !.base_lxr_holdings = @ + lxr_purchased]]
             /\ outcome' = [Succeed("manual_purchase", u) EXCEPT !.paid = sol_spent]
             /\ UNCHANGED <<global_config, admin_stake_info, stake_split_lamports,
                            luxor_vault, luxor_reward_vault>>

\* redeem.rs 107-186.  Redeem.user_stake_info (redeem.rs 37-45) is declared
\* without `mut`: the handler updates its in-memory copy, but the account is
\* not written back when the instruction exits, so the stored record keeps
\* its checkpoint, pending balance and counters.  stake_info is `mut` and is
\* written back.  lxr_holdings is owner_lxr_token.amount as observed.
Redeem ==
    \E u \in Users, lxr_holdings \in Holdings :
    LET usi == user_stake_info[u]
        ra == RedeemAmounts(usi, stake_info.reward_per_token_lxr_stored, lxr_holdings)
    IN  /\ UNCHANGED curve_vars
        /\ IF ~usi.owner THEN Fail("redeem", u, "AccountNotInitialized")
           ELSE IF ra.err # "Ok" THEN Fail("redeem", u, ra.err)
           ELSE IF insufficient_funds(luxor_reward_vault, ra.paid + ra.forfeited)
               THEN Fail("redeem", u, "InsufficientFunds")
           ELSE
             /\ stake_info' = [stake_info EXCEPT
                    !.total_lxr_claimed = @ + ra.paid,
                    !.total_lxr_forfeited = @ + ra.forfeited]
             /\ luxor_reward_vault' = luxor_reward_vault - ra.paid - ra.forfeited
             /\ luxor_vault' = luxor_vault + ra.forfeited
             /\ outcome' = [Succeed("redeem", u) EXCEPT
                    !.holdings = lxr_holdings, !.claim = ra.claim,
                    !.paid = ra.paid, !.forfeited = ra.forfeited]
             /\ UNCHANGED <<global_config, user_stake_info, admin_stake_info,
                            stake_pda_lamports, stake_split_lamports>>

\* a reassignment that hands over the pending balance as it was stored,
\* without the accrual
pending_after_accrual_stale(usi, idx) == usi.lxr_rewards_pending

\* blacklist.rs 102-112: the target's pending balance after the accrual at the
\* current index
pending_after_accrual(usi, idx) ==
    usi.lxr_rewards_pending
       + lxr_rewards_to_claim(usi.total_staked_sol,
                              idx - usi.lxr_reward_per_token_completed)

\* a reassignment that drops the target's stake instead of moving it
sink_staked_after_dropped(sink_staked, target_staked) == sink_staked

\* blacklist.rs 137-138: the sink record takes over the target's stake
sink_staked_after(sink_staked, target_staked) == sink_staked + target_staked

\* a reassignment that leaves the target its stake
target_staked_after_kept(target_staked) == target_staked

\* blacklist.rs 139: user_stake_info.total_staked_sol = 0
target_staked_after(target_staked) == 0

\* blacklist.rs 91-156 (stake_info is read only)
Blacklist ==
    \E u \in Users :
    LET usi == user_stake_info[u]
        idx == stake_info.reward_per_token_lxr_stored
        asi == IF admin_stake_info.owner THEN admin_stake_info
               ELSE [admin_stake_info EXCEPT
                       !.owner = TRUE,
                       !.lxr_reward_per_token_completed = checkpoint_at(stake_info)]
        pending_user == idx - usi.lxr_reward_per_token_completed
        user_pending == pending_after_accrual(usi, idx)
        pending_admin == idx - asi.lxr_reward_per_token_completed
        to_claim_admin == lxr_rewards_to_claim(asi.total_staked_sol, pending_admin)
    IN  /\ UNCHANGED curve_vars
        /\ IF ~usi.owner THEN Fail("blacklist", u, "AccountNotInitialized")
           ELSE IF pending_user < 0 \/ pending_admin < 0 THEN Fail("blacklist", u, "Panic")
           ELSE
             /\ user_stake_info' = [user_stake_info EXCEPT ![u] =
                    [usi EXCEPT
                       !.total_lxr_forfeited = @ + user_pending,
                       !.blacklisted_sol = @ + usi.total_staked_sol,
                       !.lxr_reward_per_token_completed = checkpoint_at(stake_info),
                       !.total_staked_sol = target_staked_after(@),
                       !.lxr_rewards_pending = 0,
                       !.base_lxr_holdings = 0]]
             /\ admin_stake_info' = [asi EXCEPT
                    !.lxr_rewards_pending = @ + to_claim_admin + user_pending,
                    !.lxr_reward_per_token_completed = checkpoint_at(stake_info),
                    !.total_staked_sol = sink_staked_after(@, usi.total_staked_sol)]
             /\ outcome' = [Succeed("blacklist", u) EXCEPT !.forfeited = user_pending]
             /\ UNCHANGED <<global_config, stake_info, stake_pda_lamports,
                            stake_split_lamports, luxor_vault, luxor_reward_vault>>

\* emergency_withdraw.rs 136-223: the admin's escape hatch, selected by param.
\* The sink record is a plain account of the instruction, so every mode fails
\* until blacklist has created it.  The stake program's withdraw keeps the
\* rent of the protocol stake account.
EmergencyWithdraw ==
    \E param \in EmergencyParams, vault_any \in EmergencyVaults, value \in EmergencyValues :
    LET asi == admin_stake_info
        reward_per_token_lxr_pending_admin ==
            stake_info.reward_per_token_lxr_stored - asi.lxr_reward_per_token_completed
        lxr_rewards_to_claim_admin ==
            lxr_rewards_to_claim(asi.total_staked_sol, reward_per_token_lxr_pending_admin)
        swept == asi.lxr_rewards_pending + lxr_rewards_to_claim_admin
    IN  /\ UNCHANGED curve_vars
        /\ IF ~asi.owner THEN Fail("emergency_withdraw", "admin", "AccountNotInitialized")
           ELSE IF param = 0
           THEN /\ luxor_vault' = IF vault_any = "treasury" THEN 0 ELSE luxor_vault
                /\ luxor_reward_vault' = IF vault_any = "reward" THEN 0
                                         ELSE luxor_reward_vault
                /\ outcome' = Succeed("emergency_withdraw", "admin")
                /\ UNCHANGED <<global_config, stake_info, user_stake_info,
                               admin_stake_info, stake_pda_lamports,
                               stake_split_lamports>>
           ELSE IF param = 1 \/ param = 3
           THEN /\ outcome' = Succeed("emergency_withdraw", "admin")
                /\ UNCHANGED <<global_config, stake_info, user_stake_info,
                               admin_stake_info, stake_pda_lamports,
                               stake_split_lamports, luxor_vault, luxor_reward_vault>>
           ELSE IF param = 2
           THEN IF reward_per_token_lxr_pending_admin < 0
                THEN Fail("emergency_withdraw", "admin", "Panic")
                ELSE IF insufficient_funds(luxor_reward_vault, swept)
                THEN Fail("emergency_withdraw", "admin", "InsufficientFunds")
                ELSE /\ admin_stake_info' = [asi EXCEPT
                            !.lxr_rewards_pending = 0,
                            !.lxr_reward_per_token_completed = checkpoint_at(stake_info)]
                     /\ luxor_reward_vault' = IF vault_any = "treasury"
                                              THEN luxor_reward_vault - swept
                                              ELSE luxor_reward_vault
                     /\ luxor_vault' = IF vault_any = "treasury"
                                       THEN luxor_vault + swept ELSE luxor_vault
                     /\ outcome' = Succeed("emergency_withdraw", "admin")
                     /\ UNCHANGED <<global_config, stake_info, user_stake_info,
                                    stake_pda_lamports, stake_split_lamports>>
           ELSE IF param = 4
           THEN IF stake_pda_lamports - value < MinRent
                THEN Fail("emergency_withdraw", "admin", "StakeWithdrawFailed")
                ELSE /\ stake_pda_lamports' = stake_pda_lamports - value
                     /\ outcome' = Succeed("emergency_withdraw", "admin")
                     /\ UNCHANGED <<global_config, stake_info, user_stake_info,
                                    admin_stake_info, stake_split_lamports,
                                    luxor_vault, luxor_reward_vault>>
           ELSE Fail("emergency_withdraw", "admin", "InvalidParam")

\* a treasury fee rounded up
fee_treasury_of_ceil(sol_withdrawan, fee_treasury_rate) ==
    CeilDiv(sol_withdrawan * fee_treasury_rate, FEE_RATE_DENOMINATOR_VALUE)

\* buyback.rs 260-264: the treasury's share of the withdrawn amount
fee_treasury_of(sol_withdrawan, fee_treasury_rate) ==
    (sol_withdrawan * fee_treasury_rate) \div FEE_RATE_DENOMINATOR_VALUE

\* a settlement that accepts a treasury fee of zero
fee_treasury_rejected_never(fee_treasury) == FALSE

\* buyback.rs 265: require!(fee_treasury > 0, ErrorCode::ZeroTradingTokens)
fee_treasury_rejected(fee_treasury) == ~(fee_treasury > 0)

\* a settlement that leaves the in-progress flag as it found it
requested_after_settlement_kept(requested) == requested

\* buyback.rs 431: stake_info.buyback_requested = false
requested_after_settlement(requested) == FALSE

\* buyback.rs 217-439: the branch taken while buyback_requested is set
\* (Requested -> Idle).  The whole balance of the split account is withdrawn.
BuybackSettle ==
    \E pool \in BuybackPools, cm \in PoolCreatorModes :
    LET sol_withdrawan == stake_split_lamports - MinRent
        fee_treasury == fee_treasury_of(sol_withdrawan, global_config.fee_treasury_rate)
        actual_amount_in == sol_withdrawan - fee_treasury
        result == swap_base_input(actual_amount_in, pool[1], pool[2],
                                  TRADE_FEE_RATE, cm[1], PROTOCOL_FEE_RATE,
                                  FUND_FEE_RATE, cm[2])
        lxr_bought == result.output_amount
    IN  IF sol_withdrawan < 0 THEN Fail("buyback_settle", "none", "Panic")
        ELSE IF fee_treasury_rejected(fee_treasury)
            THEN FailAfter("buyback_settle", "none", "ZeroTradingTokens", SettleIssued)
        ELSE IF actual_amount_in <= 0 THEN FailAfter("buyback_settle", "none", "RequireGtViolated", SettleIssued)
        ELSE IF ~result.ok THEN FailAfter("buyback_settle", "none", "ZeroTradingTokens", SettleIssued)
        ELSE IF result.input_amount # actual_amount_in
            THEN FailAfter("buyback_settle", "none", "RequireEqViolated", SettleIssued)
        ELSE IF result.new_input_vault_amount * result.new_output_vault_amount
                    < pool[1] * pool[2]
            THEN FailAfter("buyback_settle", "none", "RequireGteViolated", SettleIssued)
        ELSE IF stake_info.total_staked_sol = 0 THEN FailAfter("buyback_settle", "none", "Panic", SettleIssued)
        ELSE
          /\ stake_info' = [stake_info EXCEPT
                 !.total_luxor_rewards_accrued = @ + lxr_bought,
                 !.total_sol_used_for_buyback = @ + actual_amount_in,
                 !.reward_per_token_lxr_stored =
                     reward_per_token_lxr_after(@, lxr_bought, stake_info.total_staked_sol),
                 !.buyback_requested = requested_after_settlement(@),
                 !.buyback_count = @ + 1]
          /\ stake_split_lamports' = 0
          /\ luxor_reward_vault' = luxor_reward_vault + lxr_bought
          /\ outcome' = [Succeed("buyback_settle", "none") EXCEPT
                 !.paid = actual_amount_in, !.claim = lxr_bought,
                 !.forfeited = fee_treasury]
          /\ UNCHANGED <<global_config, user_stake_info, admin_stake_info,
                         stake_pda_lamports, luxor_vault>>

\* buyback.rs 441-520: the branch taken while buyback_requested is clear
\* (Idle -> Requested).  The stake program's split moves the available amount
\* out of the protocol stake account, which must keep its rent; the stake
\* program rejects a split of 0 lamports.
BuybackRequestWithin(max_buybacks) ==
    LET obs == Observe(stake_info, stake_pda_lamports, TRUE)
        reward_available_to_buyback ==
            obs.si.total_sol_rewards_accrued - obs.si.total_sol_used_for_buyback
    IN  IF stake_info.buyback_requested
        THEN Fail("buyback_request", "none", "BuybackAlreadyRequested")
        ELSE IF ~obs.ok THEN FailAfter("buyback_request", "none", "Panic", RequestIssued)
        ELSE IF reward_available_to_buyback < 0
            THEN FailAfter("buyback_request", "none", "Panic", RequestIssued)
        ELSE IF reward_available_to_buyback = 0
                \/ stake_pda_lamports - reward_available_to_buyback < MinRent
            THEN FailAfter("buyback_request", "none", "StakeSplitFailed", RequestIssued)
        ELSE
          /\ stake_info.buyback_count < max_buybacks
          /\ stake_pda_lamports' = stake_pda_lamports - reward_available_to_buyback
          /\ stake_split_lamports' = MinRent + reward_available_to_buyback
          /\ stake_info' = [obs.si EXCEPT
                 !.last_tracked_sol_balance =
                     stake_pda_lamports - reward_available_to_buyback,
                 !.buyback_requested = TRUE]
          /\ outcome' = [Succeed("buyback_request", "none") EXCEPT
                 !.paid = reward_available_to_buyback]
          /\ UNCHANGED <<global_config, user_stake_info, admin_stake_info,
                         luxor_vault, luxor_reward_vault>>

\* the requests of a run, at most MaxBuybacks cycles deep
BuybackRequest == BuybackRequestWithin(MaxBuybacks)

\* an entry point that always runs the request branch
BuybackRequestOnly ==
    /\ UNCHANGED curve_vars
    /\ BuybackRequest

\* buyback.rs 213-524: the one entry point; the stored flag alone selects
\* the branch
BuybackWithin(max_buybacks) ==
    /\ UNCHANGED curve_vars
    /\ IF stake_info.buyback_requested
       THEN BuybackSettle
       ELSE BuybackRequestWithin(max_buybacks)

Buyback == BuybackWithin(MaxBuybacks)

\* an arm that writes the minimum together with the maximum
set_max_swap_amount_both(gc, value) ==
    [gc EXCEPT !.max_swap_amount = value, !.min_swap_amount = value]

\* update_configs.rs 84-86: global_config.max_swap_amount = value
set_max_swap_amount(gc, value) == [gc EXCEPT !.max_swap_amount = value]

\* a dispatch that lets every selector through to the last arm
recognised_selector_any(param) == TRUE

\* update_configs.rs 67-103: the arms of the match; every other selector
\* takes the `_` arm
recognised_selector(param) == param \in 0..6

\* update_configs.rs 17-34 (the owner constraint) and 65-115
UpdateConfig ==
    \E owner \in Signers, param \in ConfigParams, value \in ConfigValues :
    LET done == [Succeed("update_config", "none") EXCEPT
                    !.param = param, !.value = value]
        frame == UNCHANGED <<stake_info, user_stake_info, admin_stake_info,
                             stake_pda_lamports, stake_split_lamports,
                             luxor_vault, luxor_reward_vault>>
    IN  /\ UNCHANGED curve_vars
        /\ IF ~(owner = global_config.admin \/ owner = ProgramAdmin)
               THEN Fail("update_config", "none", "InvalidOwner")
           ELSE IF ~recognised_selector(param)
               THEN /\ outcome' = [NoOutcome EXCEPT
                          !.op = "update_config", !.err = "InvalidParam",
                          !.param = param]
                    /\ UNCHANGED global_config
                    /\ frame
           ELSE IF param = 0
               THEN \E new_admin \in NewAdmins :
                    IF new_admin = "missing"
                        THEN Fail("update_config", "none", "MissingRemainingAccount")
                    ELSE IF new_admin = "default"
                        THEN Fail("update_config", "none", "RequireKeysNeqViolated")
                    ELSE /\ global_config' = [global_config EXCEPT !.admin = new_admin]
                         /\ outcome' = done
                         /\ frame
           ELSE IF param = 1
               THEN /\ global_config' = [global_config EXCEPT !.min_swap_amount = value]
                    /\ outcome' = done
                    /\ frame
           ELSE IF param = 2
               THEN /\ global_config' = set_max_swap_amount(global_config, value)
                    /\ outcome' = done
                    /\ frame
           ELSE IF param = 3
               THEN /\ global_config' = [global_config EXCEPT !.fee_treasury_rate = value]
                    /\ outcome' = done
                    /\ frame
           ELSE IF param = 4
               THEN /\ global_config' = [global_config EXCEPT
                                            !.purchase_enabled = (value # 0)]
                    /\ outcome' = done
                    /\ frame
           ELSE IF param = 5
               THEN /\ global_config' = [global_config EXCEPT
                                            !.redeem_enabled = (value # 0)]
                    /\ outcome' = done
                    /\ frame
           ELSE /\ global_config' = [global_config EXCEPT
                                        !.max_stake_count_to_get_bonus = value]
                /\ outcome' = done
                /\ frame

Next ==
    \/ Purchase
    \/ ManualPurchase
    \/ Redeem
    \/ Blacklist
    \/ EmergencyWithdraw
    \/ Buyback
    \/ StakeRewards
    \/ FundSplit

Spec == Init /\ [][Next]_vars

\* ----------------------------------------- pricing on a simulated reserve pair

\* states/pool.rs get_swap_params: the trade direction selects which vault is
\* the input side
TradeDirections == {"ZeroForOne", "OneForZero"}

ReserveIn(dir) == IF dir = "ZeroForOne" THEN reserve_0 ELSE reserve_1
ReserveOut(dir) == IF dir = "ZeroForOne" THEN reserve_1 ELSE reserve_0

\* the priced swap is applied to the pair: the new vault amounts replace the
\* reserves of the direction traded
ApplySwap(dir, kind, cm, result) ==
    /\ swap_result' = [kind |-> kind, reserve_in |-> ReserveIn(dir),
                       reserve_out |-> ReserveOut(dir),
                       creator_fee_rate |-> cm[1], is_creator_fee_on_input |-> cm[2],
                       result |-> result]
    /\ IF result.ok
       THEN /\ result.new_input_vault_amount <= MaxReserve
            /\ result.new_output_vault_amount <= MaxReserve
            /\ reserve_0' = IF dir = "ZeroForOne" THEN result.new_input_vault_amount
                            ELSE result.new_output_vault_amount
            /\ reserve_1' = IF dir = "ZeroForOne" THEN result.new_output_vault_amount
                            ELSE result.new_input_vault_amount
       ELSE UNCHANGED <<reserve_0, reserve_1>>
    /\ round_trip' = NoRoundTrip
    /\ UNCHANGED machine_vars

\* PriceExactInput: CurveCalculator::swap_base_input on the pair
PriceExactInput ==
    \E amount \in 1..MaxSwapAmount, cm \in CreatorModes, dir \in TradeDirections :
        ApplySwap(dir, "input", cm,
                  swap_base_input(amount, ReserveIn(dir), ReserveOut(dir),
                                  TRADE_FEE_RATE, cm[1], PROTOCOL_FEE_RATE,
                                  FUND_FEE_RATE, cm[2]))

\* PriceExactOutput: CurveCalculator::swap_base_output on the pair
PriceExactOutput ==
    \E amount \in 1..MaxSwapAmount, cm \in CreatorModes, dir \in TradeDirections :
        ApplySwap(dir, "output", cm,
                  swap_base_output(amount, ReserveIn(dir), ReserveOut(dir),
                                   TRADE_FEE_RATE, cm[1], PROTOCOL_FEE_RATE,
                                   FUND_FEE_RATE, cm[2]))

\* the exact-output price, against the reserves the last exact-input swap was
\* priced on, of the output that swap returned
PriceRoundTrip ==
    /\ swap_result.kind = "input"
    /\ swap_result.result.ok
    /\ ~round_trip.done
    /\ LET back == swap_base_output(swap_result.result.output_amount,
                                    swap_result.reserve_in, swap_result.reserve_out,
                                    TRADE_FEE_RATE, swap_result.creator_fee_rate,
                                    PROTOCOL_FEE_RATE, FUND_FEE_RATE,
                                    swap_result.is_creator_fee_on_input)
       IN  round_trip' = [done |-> TRUE, ok |-> back.ok,
                          amount |-> swap_result.result.input_amount,
                          output |-> swap_result.result.output_amount,
                          required |-> back.input_amount]
    /\ UNCHANGED <<reserve_0, reserve_1, swap_result>>
    /\ UNCHANGED machine_vars

InitialReserves == {6, 12}

InitCurve ==
    /\ global_config = InitialGlobalConfig(250000)
    /\ stake_info = InitialStakeInfo
    /\ user_stake_info = [u \in Users |-> DefaultUserStakeInfo]
    /\ admin_stake_info = DefaultUserStakeInfo
    /\ stake_pda_lamports = MinRent
    /\ stake_split_lamports = 0
    /\ luxor_vault = 40
    /\ luxor_reward_vault = 0
    /\ outcome = NoOutcome
    /\ reserve_0 \in InitialReserves
    /\ reserve_1 \in InitialReserves
    /\ swap_result = NoPricedSwap
    /\ round_trip = NoRoundTrip

NextCurve ==
    \/ PriceExactInput
    \/ PriceExactOutput
    \/ PriceRoundTrip

SpecCurve == InitCurve /\ [][NextCurve]_vars

\* ------------------------------------------- redemption on drawn records

\* principal records, index values and vault balances the instructions
\* produce: the checkpoint is an earlier value of the index, a pending
\* balance was credited by manual_purchase
InitRedeem ==
    /\ global_config = InitialGlobalConfig(250000)
    /\ \E idx \in {2, 4, 12} :
          stake_info = [InitialStakeInfo EXCEPT
                          !.reward_per_token_lxr_stored = idx,
                          !.total_staked_sol = 6,
                          !.total_luxor_rewards_accrued = 30]
    /\ \E staked \in {0, 1, 2, 5}, base \in {0, 4, 10, 30}, cp \in {0, 2}, pend \in {0, 3} :
          user_stake_info = [u \in Users |->
              [DefaultUserStakeInfo EXCEPT
                 !.owner = TRUE, !.total_staked_sol = staked,
                 !.base_lxr_holdings = base,
                 !.lxr_reward_per_token_completed = cp,
                 !.lxr_rewards_pending = pend]]
    /\ admin_stake_info = DefaultUserStakeInfo
    /\ stake_pda_lamports = MinRent + 6
    /\ stake_split_lamports = 0
    /\ luxor_vault = 40
    /\ luxor_reward_vault \in {0, 30}
    /\ outcome = NoOutcome
    /\ IdleCurve

NextRedeem == Redeem

SpecRedeem == InitRedeem /\ [][NextRedeem]_vars

\* --------------------------------------------------- blacklist reassignment

\* Reassignments applied to principal and sink records drawn with their
\* checkpoints at or below the index and the aggregate stake equal to the sum
\* of the records; the sink record exists (after an earlier reassignment) or
\* not.
InitBlacklist ==
    /\ global_config = InitialGlobalConfig(250000)
    /\ \E staked \in {0, 1, 2, 5}, base \in {0, 10}, cp \in {0, 2}, pend \in {0, 3},
          sink \in BOOLEAN, sink_staked \in {0, 3}, sink_cp \in {0, 2},
          sink_pend \in {0, 1}, idx \in {2, 4} :
          /\ ~sink => (sink_staked = 0 /\ sink_cp = 0 /\ sink_pend = 0)
          /\ user_stake_info = [u \in Users |->
                [DefaultUserStakeInfo EXCEPT
                   !.owner = TRUE, !.total_staked_sol = staked,
                   !.base_lxr_holdings = base,
                   !.lxr_reward_per_token_completed = cp,
                   !.lxr_rewards_pending = pend]]
          /\ admin_stake_info =
                [DefaultUserStakeInfo EXCEPT
                   !.owner = sink, !.total_staked_sol = sink_staked,
                   !.lxr_reward_per_token_completed = sink_cp,
                   !.lxr_rewards_pending = sink_pend]
          /\ stake_info = [InitialStakeInfo EXCEPT
                   !.reward_per_token_lxr_stored = idx,
                   !.total_staked_sol = staked + sink_staked,
                   !.total_luxor_rewards_accrued = 30,
                   !.last_tracked_sol_balance = MinRent + staked + sink_staked]
          /\ stake_pda_lamports = MinRent + staked + sink_staked
    /\ stake_split_lamports = 0
    /\ luxor_vault = 40
    /\ luxor_reward_vault = 30
    /\ outcome = NoOutcome
    /\ IdleCurve

NextBlacklist == Blacklist

SpecBlacklist == InitBlacklist /\ [][NextBlacklist]_vars

\* ------------------------------------------------ the configuration updates

\* The administrator's updates interleaved with the purchases and redemptions
\* they gate.  The runs start either right after initialise_configs or in the
\* state the machine is in after one purchase and one settled buyback
\* (purchase of 10 tokens, 8 lamports of staking rewards, request, settlement).
SettledStakeInfo ==
    [InitialStakeInfo EXCEPT
        !.total_staked_sol = 2, !.total_stake_count = 1,
        !.total_sol_rewards_accrued = 8, !.last_tracked_sol_balance = 3,
        !.reward_per_token_sol_stored = 8, !.total_luxor_rewards_accrued = 2,
        !.total_sol_used_for_buyback = 6, !.reward_per_token_lxr_stored = 2,
        !.buyback_count = 1]

SettledUserStakeInfo ==
    [DefaultUserStakeInfo EXCEPT
        !.owner = TRUE, !.total_staked_sol = 2, !.base_lxr_holdings = 10]

AfterFirstBuyback ==
    /\ global_config = InitialGlobalConfig(250000)
    /\ stake_info = SettledStakeInfo
    /\ user_stake_info = [u \in Users |-> SettledUserStakeInfo]
    /\ admin_stake_info = DefaultUserStakeInfo
    /\ stake_pda_lamports = 3
    /\ stake_split_lamports = 0
    /\ luxor_vault = 30
    /\ luxor_reward_vault = 2

AfterInitialise ==
    /\ global_config = InitialGlobalConfig(250000)
    /\ stake_info = InitialStakeInfo
    /\ user_stake_info = [u \in Users |-> DefaultUserStakeInfo]
    /\ admin_stake_info = DefaultUserStakeInfo
    /\ stake_pda_lamports = MinRent
    /\ stake_split_lamports = 0
    /\ luxor_vault = 40
    /\ luxor_reward_vault = 0

InitConfig ==
    /\ AfterInitialise \/ AfterFirstBuyback
    /\ outcome = NoOutcome
    /\ IdleCurve

NextConfig ==
    \/ UpdateConfig
    \/ Purchase
    \/ Redeem

SpecConfig == InitConfig /\ [][NextConfig]_vars

\* ------------------------------------------- redemptions after a blacklist

\* The reassignments interleaved with the purchases that restore a stake, the
\* buyback cycles that move the index and the redemptions they bar.
NextBarred ==
    \/ Blacklist
    \/ Redeem
    \/ Purchase
    \/ Buyback
    \/ StakeRewards

SpecBarred == InitConfig /\ [][NextBarred]_vars

\* ------------------------------------------------ settlement of a request

\* The machine in Requested after purchases worth `staked` lamports and a
\* request that split `available` lamports of observed rewards into the
\* sub-account; lamports may still arrive there before the settlement.
InitSettle ==
    /\ \E rate \in TreasuryRates : global_config = InitialGlobalConfig(rate)
    /\ \E staked \in {2, 3, 4, 5}, available \in {2, 4, 6, 8} :
          /\ stake_info = [InitialStakeInfo EXCEPT
                   !.total_staked_sol = staked, !.total_stake_count = 1,
                   !.total_sol_rewards_accrued = available,
                   !.last_tracked_sol_balance = MinRent + staked,
                   !.reward_per_token_sol_stored = (available * PRECISION) \div staked,
                   !.buyback_requested = TRUE]
          /\ user_stake_info = [u \in Users |->
                [DefaultUserStakeInfo EXCEPT
                   !.owner = TRUE, !.total_staked_sol = staked,
                   !.base_lxr_holdings = 10]]
          /\ stake_pda_lamports = MinRent + staked
          /\ stake_split_lamports = MinRent + available
    /\ admin_stake_info = DefaultUserStakeInfo
    /\ luxor_vault = 30
    /\ luxor_reward_vault = 0
    /\ outcome = NoOutcome
    /\ IdleCurve

NextSettle ==
    \/ Buyback
    \/ FundSplit

SpecSettle == InitSettle /\ [][NextSettle]_vars

\* ------------------------------------------ observation of staking rewards

\* The instructions that observe the custodial balance, with staking rewards
\* arriving between them, from the state after initialise_configs or after a
\* first settled buyback.
NextObserve ==
    \/ Purchase
    \/ ManualPurchase
    \/ Buyback
    \/ StakeRewards

SpecObserve == InitConfig /\ [][NextObserve]_vars

\* --------------------------------------------------- consecutive buybacks

\* One buyback cycle more than the other runs allow, so that a request can
\* follow a settlement; purchases and staking rewards arrive in between.
BuybackAgain == BuybackWithin(MaxBuybacks + 1)

NextCycles ==
    \/ BuybackAgain
    \/ Purchase
    \/ ManualPurchase
    \/ StakeRewards

SpecCycles == InitConfig /\ [][NextCycles]_vars

\* ------------------------------------------------- a principal's first steps

\* The machine after one settled buyback whose stake belongs to a principal
\* outside Users: no record of Users exists yet, and the token index has
\* already moved.
InitNewcomer ==
    /\ global_config = InitialGlobalConfig(250000)
    /\ stake_info = SettledStakeInfo
    /\ user_stake_info = [u \in Users |-> DefaultUserStakeInfo]
    /\ admin_stake_info = DefaultUserStakeInfo
    /\ stake_pda_lamports = 3
    /\ stake_split_lamports = 0
    /\ luxor_vault = 30
    /\ luxor_reward_vault = 2
    /\ outcome = NoOutcome
    /\ IdleCurve

NextNewcomer ==
    \/ Purchase
    \/ ManualPurchase
    \/ Redeem
    \/ BuybackAgain
    \/ StakeRewards

SpecNewcomer == InitNewcomer /\ [][NextNewcomer]_vars

\* ------------------------------------------------- pricing on shallow pools

\* (SOL vault, LXR vault) of pools whose token side is at, just above or below
\* the amount a purchase asks for, next to the market's pool
ShallowPools == {<<10, 100>>, <<10, 12>>, <<10, 11>>, <<10, 10>>, <<10, 5>>}

PurchaseShallow == PurchaseOn(ShallowPools)

\* one exact-output pricing of the drawn reserve pair
PriceExactOutputOnce ==
    /\ swap_result = NoPricedSwap
    /\ PriceExactOutput

NextQuote ==
    \/ PriceExactOutputOnce
    \/ PurchaseShallow

SpecQuote == InitCurve /\ [][NextQuote]_vars

\* ------------------------------------------------------------- properties

\* every field of the machine except the reported result
MachineState ==
    <<global_config, stake_info, user_stake_info, admin_stake_info,
      stake_pda_lamports, stake_split_lamports, luxor_vault, luxor_reward_vault>>

BuybackOps == {"buyback_request", "buyback_settle"}

C2_RewardsCoverBuyback ==
    stake_info.total_sol_rewards_accrued >= stake_info.total_sol_used_for_buyback

\* C3: every step that changes the staked amount of a record (a principal's
\* or the sink's) leaves that record's checkpoint at the current global token
\* index, so the stake added earns nothing from earlier settlements.
C3_AccrueBeforeStakeChange ==
    [][/\ \A u \in Users :
            user_stake_info'[u].total_staked_sol # user_stake_info[u].total_staked_sol
              => user_stake_info'[u].lxr_reward_per_token_completed
                    = stake_info'.reward_per_token_lxr_stored
       /\ admin_stake_info'.total_staked_sol # admin_stake_info.total_staked_sol
              => admin_stake_info'.lxr_reward_per_token_completed
                    = stake_info'.reward_per_token_lxr_stored]_vars

\* C4: a successful redeem leaves the principal's stored checkpoint at the
\* global token index and its stored pending balance at zero.
C4_RedeemAdvancesCheckpoint ==
    [][(outcome'.op = "redeem" /\ outcome'.err = "Ok")
         => /\ user_stake_info'[outcome'.user].lxr_reward_per_token_completed
                 = stake_info'.reward_per_token_lxr_stored
            /\ user_stake_info'[outcome'.user].lxr_rewards_pending = 0]_vars

\* C5: the checkpoint of every principal record and of the sink record never
\* exceeds the global token index.
C5_CheckpointBelowIndex ==
    /\ \A u \in Users :
          user_stake_info[u].lxr_reward_per_token_completed
             <= stake_info.reward_per_token_lxr_stored
    /\ admin_stake_info.lxr_reward_per_token_completed
          <= stake_info.reward_per_token_lxr_stored

C5_Witness ==
    /\ stake_info.reward_per_token_lxr_stored > 0
    /\ admin_stake_info.owner
    /\ admin_stake_info.total_staked_sol > 0
    /\ admin_stake_info.lxr_reward_per_token_completed
          = stake_info.reward_per_token_lxr_stored
    /\ \E u \in Users : user_stake_info[u].total_staked_sol > 0

RedeemOk(o) == o.op = "redeem" /\ o.err = "Ok"

\* the index-derived claim of a record, written out: staked * delta, divided
\* by PRECISION and again by PRECISION
FullClaim(usi, global_index) ==
    ((usi.total_staked_sol * (global_index - usi.lxr_reward_per_token_completed))
        \div PRECISION) \div PRECISION

\* C6: a redeem that observes a wallet balance at or above the base holdings
\* forfeits zero: nothing is reported forfeited, nothing reaches the treasury
\* and the forfeited counters stay as they were.
C6_NoForfeitAtOrAboveBase ==
    [][(RedeemOk(outcome')
          /\ outcome'.holdings >= user_stake_info[outcome'.user].base_lxr_holdings)
         => /\ outcome'.forfeited = 0
            /\ stake_info'.total_lxr_forfeited = stake_info.total_lxr_forfeited
            /\ user_stake_info'[outcome'.user].total_lxr_forfeited
                  = user_stake_info[outcome'.user].total_lxr_forfeited
            /\ luxor_vault' = luxor_vault]_vars

C6_Witness ==
    /\ RedeemOk(outcome)
    /\ user_stake_info[outcome.user].base_lxr_holdings > 0
    /\ outcome.holdings >= user_stake_info[outcome.user].base_lxr_holdings
    /\ outcome.paid > 0

\* C7: a redeem that observes a wallet balance of 0 against positive base
\* holdings forfeits the whole index-derived claim and pays the principal
\* nothing but the balance that was already pending.
C7_ZeroBalanceForfeitsAll ==
    [][(RedeemOk(outcome') /\ outcome'.holdings = 0
          /\ user_stake_info[outcome'.user].base_lxr_holdings > 0)
         => /\ outcome'.forfeited
                  = FullClaim(user_stake_info[outcome'.user],
                              stake_info.reward_per_token_lxr_stored)
            /\ outcome'.paid = user_stake_info[outcome'.user].lxr_rewards_pending]_vars

C7_Witness ==
    /\ RedeemOk(outcome)
    /\ outcome.holdings = 0
    /\ user_stake_info[outcome.user].base_lxr_holdings > 0
    /\ outcome.forfeited > 1
    /\ outcome.paid > 0

\* C8: for every successful redeem, paid + forfeited is the index-derived
\* claim plus the pending balance; below the base holdings the index-derived
\* part paid is floor(claim * balance / base) and the rest is forfeited.
C8_PaidPlusForfeited ==
    [][RedeemOk(outcome')
         => LET usi == user_stake_info[outcome'.user]
                full == FullClaim(usi, stake_info.reward_per_token_lxr_stored)
            IN  /\ outcome'.paid + outcome'.forfeited = full + usi.lxr_rewards_pending
                /\ luxor_reward_vault - luxor_reward_vault'
                      = outcome'.paid + outcome'.forfeited
                /\ outcome'.holdings < usi.base_lxr_holdings
                     => /\ outcome'.paid - usi.lxr_rewards_pending
                              = (full * outcome'.holdings) \div usi.base_lxr_holdings
                        /\ outcome'.forfeited
                              = full - (full * outcome'.holdings) \div usi.base_lxr_holdings]_vars

C8_Witness ==
    /\ RedeemOk(outcome)
    /\ outcome.holdings > 0
    /\ outcome.holdings < user_stake_info[outcome.user].base_lxr_holdings
    /\ user_stake_info[outcome.user].lxr_rewards_pending > 0
    /\ outcome.forfeited > 0
    /\ outcome.paid > user_stake_info[outcome.user].lxr_rewards_pending
    /\ (outcome.claim * outcome.holdings) % user_stake_info[outcome.user].base_lxr_holdings # 0

\* C9: every priced swap applied to the pair returns new reserves whose
\* product is at least the product of the reserves it was priced on, so the
\* product of the pair never decreases.
C9_ProductNonDecreasing ==
    [][/\ reserve_0' * reserve_1' >= reserve_0 * reserve_1
       /\ (swap_result'.kind \in {"input", "output"} /\ swap_result'.result.ok)
            => swap_result'.result.new_input_vault_amount
                 * swap_result'.result.new_output_vault_amount
                   >= swap_result'.reserve_in * swap_result'.reserve_out]_vars

C9_Witness ==
    /\ swap_result.kind = "output"
    /\ swap_result.result.ok
    /\ ~swap_result.is_creator_fee_on_input
    /\ swap_result.result.creator_fee > 0
    /\ swap_result.result.new_input_vault_amount
          * swap_result.result.new_output_vault_amount
            > swap_result.reserve_in * swap_result.reserve_out
    /\ swap_result.reserve_in # swap_result.reserve_out

\* C10 (as claimed): the exact-output requirement for the output of an
\* exact-input swap differs from the input amount by at most 1 unit.
C10_RoundTripWithinOne ==
    (round_trip.done /\ round_trip.ok /\ round_trip.output > 0)
        => /\ round_trip.required - round_trip.amount <= 1
           /\ round_trip.amount - round_trip.required <= 1

\* C10 (amended): the exact-output requirement for the output of an
\* exact-input swap never exceeds the input amount (it can fall short of it
\* by more than 1 unit, because the exact-input output is rounded down).
C10_RoundTripNeverExceeds ==
    round_trip.done => (round_trip.ok /\ round_trip.required <= round_trip.amount)

C10_Witness ==
    /\ round_trip.done
    /\ round_trip.ok
    /\ round_trip.output > 0
    /\ round_trip.required < round_trip.amount - 1

\* C11: observing the custodial balance a second time with the balance
\* unchanged adds zero to total_sol_rewards_accrued, zero to
\* reward_per_token_sol_stored and leaves last_tracked_sol_balance as the first
\* observation left it.
C11_ObserveIdempotent ==
    \A with_index \in BOOLEAN :
        LET first == Observe(stake_info, stake_pda_lamports, with_index)
            second == Observe(first.si, stake_pda_lamports, with_index)
        IN  first.ok
              => /\ second.ok
                 /\ second.si.total_sol_rewards_accrued
                       = first.si.total_sol_rewards_accrued
                 /\ second.si.reward_per_token_sol_stored
                       = first.si.reward_per_token_sol_stored
                 /\ second.si.last_tracked_sol_balance
                       = first.si.last_tracked_sol_balance
                 /\ second.si = first.si

C11_Witness ==
    /\ stake_pda_lamports > stake_info.last_tracked_sol_balance
    /\ stake_info.total_staked_sol > 0
    /\ Observe(stake_info, stake_pda_lamports, TRUE).si.reward_per_token_sol_stored
          > stake_info.reward_per_token_sol_stored

\* C12: a purchase whose computed requirement, after the bonus or inventory
\* adjustment, exceeds the payer's max_sol_amount fails, and the aggregate
\* record, the principal records and every balance are left as they were.
C12_OverLimitPurchaseFails ==
    [][(outcome'.op = "purchase"
          /\ outcome'.max_sol_amount < outcome'.total_sol_needed)
         => /\ outcome'.err = "RequireGteViolated"
            /\ MachineState' = MachineState]_vars

C12_Witness ==
    /\ outcome.op = "purchase"
    /\ outcome.err = "RequireGteViolated"
    /\ outcome.max_sol_amount < outcome.total_sol_needed
    /\ stake_info.total_stake_count > 0

\* the requirement the pricing path returns for one purchase, before the tier
\* adjustment
RawRequirements ==
    { swap_base_output(lxr, pool[1], pool[2], TRADE_FEE_RATE, cm[1],
                       PROTOCOL_FEE_RATE, FUND_FEE_RATE, cm[2]).input_amount :
        lxr \in LxrAmounts, pool \in PurchasePools, cm \in PoolCreatorModes }

C14_DisabledPurchaseFails ==
    [][/\ (~global_config.purchase_enabled /\ outcome'.op = "purchase")
            => /\ outcome'.err = "PurchaseDisabled"
               /\ MachineState' = MachineState
       /\ (outcome'.op = "update_config" /\ outcome'.err = "Ok"
              /\ outcome'.param = 4 /\ outcome'.value = 0)
            => ~global_config'.purchase_enabled
       /\ (~global_config.purchase_enabled /\ global_config'.purchase_enabled)
            => /\ outcome'.op = "update_config"
               /\ outcome'.err = "Ok"
               /\ outcome'.param = 4
               /\ outcome'.value # 0]_vars

\* a purchase refused after an earlier one went through
C14_Witness ==
    /\ ~global_config.purchase_enabled
    /\ outcome.op = "purchase"
    /\ outcome.err = "PurchaseDisabled"
    /\ stake_info.total_stake_count > 0

\* C15: while redeem_enabled is false every redeem fails and changes no state.
C15_DisabledRedeemFails ==
    [][(~global_config.redeem_enabled /\ outcome'.op = "redeem")
          => /\ outcome'.err # "Ok"
             /\ MachineState' = MachineState]_vars

\* C16: in purchase, buyback request and buyback settlement every failing
\* check or checked arithmetic step is evaluated before the first external
\* operation is issued: an instruction that fails on one of them has invoked
\* no other program.  (StakeSplitFailed and InsufficientFunds are failures of
\* an invoked program itself and are left out.)
C16_FailuresBeforeSideEffects ==
    [][(outcome'.op \in {"purchase", "buyback_request", "buyback_settle"}
          /\ outcome'.err \notin {"Ok", "StakeSplitFailed", "InsufficientFunds"})
         => outcome'.issued = <<>>]_vars

\* C17: a buyback settlement whose treasury fee
\* floor(withdrawn * fee_treasury_rate / 1_000_000) is 0, a rate of 0 included,
\* fails; the machine stays Requested and buyback_count,
\* reward_per_token_lxr_stored, total_sol_used_for_buyback and
\* total_luxor_rewards_accrued are unchanged.
C17_ZeroFeeSettlementFails ==
    [][(outcome'.op = "buyback_settle"
          /\ ((stake_split_lamports - MinRent) * global_config.fee_treasury_rate)
                \div 1000000 = 0)
         => /\ outcome'.err # "Ok"
            /\ stake_info'.buyback_requested
            /\ stake_info'.buyback_count = stake_info.buyback_count
            /\ stake_info'.reward_per_token_lxr_stored
                  = stake_info.reward_per_token_lxr_stored
            /\ stake_info'.total_sol_used_for_buyback
                  = stake_info.total_sol_used_for_buyback
            /\ stake_info'.total_luxor_rewards_accrued
                  = stake_info.total_luxor_rewards_accrued
            /\ MachineState' = MachineState]_vars

C17_Witness ==
    /\ outcome.op = "buyback_settle"
    /\ outcome.err = "ZeroTradingTokens"
    /\ stake_info.buyback_requested
    /\ stake_split_lamports > MinRent
    /\ ((stake_split_lamports - MinRent) * global_config.fee_treasury_rate)
          \div 1000000 = 0

\* C18: no operation lowers reward_per_token_lxr_stored or
\* reward_per_token_sol_stored.
C18_IndicesNonDecreasing ==
    [][/\ stake_info'.reward_per_token_lxr_stored
             >= stake_info.reward_per_token_lxr_stored
       /\ stake_info'.reward_per_token_sol_stored
             >= stake_info.reward_per_token_sol_stored]_vars

\* both indices have grown and a buyback has settled
C18_Witness ==
    /\ stake_info.reward_per_token_lxr_stored > 0
    /\ stake_info.reward_per_token_sol_stored > 0
    /\ stake_info.buyback_count > 0

\* C19: manual purchase for an existing principal credits the same amount as
\* every other call site that turns a token-index delta into an owed amount,
\* floor(floor(staked * delta / PRECISION) / PRECISION).
C19_ManualPurchaseCreditsDoubleFloor ==
    [][\A u \in Users :
         (outcome'.op = "manual_purchase" /\ outcome'.err = "Ok"
            /\ outcome'.user = u /\ user_stake_info[u].owner)
           => user_stake_info'[u].lxr_rewards_pending
                = user_stake_info[u].lxr_rewards_pending
                  + ((user_stake_info[u].total_staked_sol
                        * (stake_info.reward_per_token_lxr_stored
                             - user_stake_info[u].lxr_reward_per_token_completed))
                       \div PRECISION) \div PRECISION]_vars

\* C20: redeem fails with NoRewardsToClaim and changes no state whenever
\* floor(floor(staked * delta / PRECISION) / PRECISION) is 0, even if the
\* index delta is positive: the checkpoint does not advance.
C20_ZeroClaimRedeemFails ==
    [][(/\ outcome'.op = "redeem"
        /\ \A u \in Users :
             /\ user_stake_info[u].owner
             /\ stake_info.reward_per_token_lxr_stored
                   >= user_stake_info[u].lxr_reward_per_token_completed
             /\ ((user_stake_info[u].total_staked_sol
                    * (stake_info.reward_per_token_lxr_stored
                         - user_stake_info[u].lxr_reward_per_token_completed))
                   \div PRECISION) \div PRECISION = 0)
         => /\ outcome'.err = "NoRewardsToClaim"
            /\ MachineState' = MachineState
            /\ \A u \in Users :
                 user_stake_info'[u].lxr_reward_per_token_completed
                    = user_stake_info[u].lxr_reward_per_token_completed]_vars

\* a refused redeem of a principal with stake, a positive delta and a product
\* staked * delta that survives one division by PRECISION but not two
C20_Witness ==
    /\ outcome.op = "redeem"
    /\ outcome.err = "NoRewardsToClaim"
    /\ \E u \in Users :
         LET usi == user_stake_info[u]
             delta == stake_info.reward_per_token_lxr_stored
                         - usi.lxr_reward_per_token_completed
         IN  /\ usi.owner
             /\ usi.total_staked_sol > 0
             /\ delta > 0
             /\ (usi.total_staked_sol * delta) \div PRECISION > 0
             /\ ((usi.total_staked_sol * delta) \div PRECISION) \div PRECISION = 0
             /\ usi.lxr_rewards_pending > 0

\* C21: a blacklist reassignment moves the target's whole stake and its
\* pending balance after accrual into the sink record (which also accrues its
\* own reward), zeroes the target's staked, pending and base-holdings fields,
\* raises the target's blacklisted_sol by the moved stake and leaves the
\* aggregate total_staked_sol unchanged.
C21_BlacklistMovesStakeAndPending ==
    [][\A u \in Users :
         (outcome'.op = "blacklist" /\ outcome'.err = "Ok" /\ outcome'.user = u)
           => LET usi == user_stake_info[u]
                  idx == stake_info.reward_per_token_lxr_stored
                  moved_pending ==
                      usi.lxr_rewards_pending
                        + ((usi.total_staked_sol
                              * (idx - usi.lxr_reward_per_token_completed))
                             \div PRECISION) \div PRECISION
                  sink_accrual ==
                      IF admin_stake_info.owner
                      THEN ((admin_stake_info.total_staked_sol
                               * (idx - admin_stake_info.lxr_reward_per_token_completed))
                              \div PRECISION) \div PRECISION
                      ELSE 0
              IN  /\ admin_stake_info'.total_staked_sol
                        = admin_stake_info.total_staked_sol + usi.total_staked_sol
                  /\ admin_stake_info'.lxr_rewards_pending
                        = admin_stake_info.lxr_rewards_pending + sink_accrual
                            + moved_pending
                  /\ user_stake_info'[u].total_staked_sol = 0
                  /\ user_stake_info'[u].lxr_rewards_pending = 0
                  /\ user_stake_info'[u].base_lxr_holdings = 0
                  /\ user_stake_info'[u].blacklisted_sol
                        = usi.blacklisted_sol + usi.total_staked_sol
                  /\ stake_info'.total_staked_sol = stake_info.total_staked_sol]_vars

\* a reassignment that moved stake and a pending balance, part of which the
\* accrual at the blacklisting had produced (outcome.forfeited is the moved
\* pending balance)
C21_Witness ==
    /\ outcome.op = "blacklist"
    /\ outcome.err = "Ok"
    /\ admin_stake_info.total_staked_sol > 3
    /\ admin_stake_info.lxr_rewards_pending > outcome.forfeited
    /\ outcome.forfeited > 3
    /\ \E u \in Users :
         /\ user_stake_info[u].blacklisted_sol > 0
         /\ user_stake_info[u].total_staked_sol = 0
    /\ stake_info.total_staked_sol = admin_stake_info.total_staked_sol

\* C22: blacklist leaves the target's total_lxr_claimed unchanged and raises
\* its total_lxr_forfeited by exactly the reward newly computed at the
\* blacklisting, staked * delta / PRECISION / PRECISION, and not by a pending
\* balance carried over from before.
C22_BlacklistForfeitsNewRewardOnly ==
    [][\A u \in Users :
         (outcome'.op = "blacklist" /\ outcome'.err = "Ok" /\ outcome'.user = u)
           => LET usi == user_stake_info[u]
                  idx == stake_info.reward_per_token_lxr_stored
              IN  /\ user_stake_info'[u].total_lxr_claimed = usi.total_lxr_claimed
                  /\ user_stake_info'[u].total_lxr_forfeited
                        = usi.total_lxr_forfeited
                            + ((usi.total_staked_sol
                                  * (idx - usi.lxr_reward_per_token_completed))
                                 \div PRECISION) \div PRECISION]_vars

SelectorField ==
    [param \in 0..6 |->
        CASE param = 0 -> "admin"
          [] param = 1 -> "min_swap_amount"
          [] param = 2 -> "max_swap_amount"
          [] param = 3 -> "fee_treasury_rate"
          [] param = 4 -> "purchase_enabled"
          [] param = 5 -> "redeem_enabled"
          [] param = 6 -> "max_stake_count_to_get_bonus"]

C25_PurchaseWithinSwapBounds ==
    [][\A u \in Users :
         (outcome'.op = "purchase" /\ outcome'.err = "Ok" /\ outcome'.user = u)
           => LET lxr_to_purchase == user_stake_info'[u].base_lxr_holdings
                                        - user_stake_info[u].base_lxr_holdings
              IN  /\ global_config.min_swap_amount <= lxr_to_purchase
                  /\ lxr_to_purchase <= global_config.max_swap_amount]_vars

\* C26: emergency_withdraw dispatches as documented (0 and 1 move tokens out of
\* a vault, 2 deactivates the stake, 3 withdraws lamports, anything else is
\* InvalidParam with no effect), so no emergency_withdraw step touches a
\* principal record, the administrative sink record included.
C26_EmergencyLeavesPrincipalRecords ==
    [][outcome'.op = "emergency_withdraw"
         => /\ user_stake_info' = user_stake_info
            /\ admin_stake_info' = admin_stake_info]_vars

\* the output of an exact-output trade grossed up by the creator fee when that
\* fee is charged on the output side
GrossOutput(amount, creator_fee_rate, is_creator_fee_on_input) ==
    IF is_creator_fee_on_input THEN amount
    ELSE CeilDiv(amount * FEE_RATE_DENOMINATOR_VALUE,
                 FEE_RATE_DENOMINATOR_VALUE - creator_fee_rate)

\* C27: exact-output pricing succeeds only when the requested output, grossed
\* up by the creator fee, is below reserve_out, and then the pre-fee input is
\* ceil(reserve_in * out / (reserve_out - out)); a purchase whose grossed-up
\* amount is at or above the pool's token reserve fails and changes no state.
C27_ExactOutputBelowReserve ==
    [][/\ (swap_result'.kind = "output" /\ swap_result'.result.ok)
            => LET r == swap_result'
                   out == GrossOutput(r.result.output_amount, r.creator_fee_rate,
                                      r.is_creator_fee_on_input)
               IN  /\ out < r.reserve_out
                   /\ r.result.new_input_vault_amount - r.reserve_in
                         = CeilDiv(r.reserve_in * out, r.reserve_out - out)
       /\ \A cm \in PoolCreatorModes :
            (/\ outcome'.op = "purchase"
             /\ outcome'.lxr_to_purchase > 0
             /\ GrossOutput(outcome'.lxr_to_purchase, cm[1], cm[2])
                   >= outcome'.pool[2])
            => /\ outcome'.err # "Ok"
               /\ MachineState' = MachineState]_vars

\* a purchase of 10 tokens on a pool holding 11 was refused: the amount is
\* below the reserve, the amount grossed up by the creator fee is not
C27_Witness ==
    /\ outcome.op = "purchase"
    /\ outcome.err = "Panic"
    /\ outcome.lxr_to_purchase < outcome.pool[2]
    /\ \E cm \in PoolCreatorModes :
          GrossOutput(outcome.lxr_to_purchase, cm[1], cm[2]) >= outcome.pool[2]

C29_AccrualMovesSolIndex ==
    [][LET delta == stake_info'.total_sol_rewards_accrued
                       - stake_info.total_sol_rewards_accrued
       IN  (/\ delta > 0
            /\ stake_info.total_staked_sol > 0
            /\ delta * PRECISION >= stake_info.total_staked_sol)
           => stake_info'.reward_per_token_sol_stored
                 = stake_info.reward_per_token_sol_stored
                      + (delta * PRECISION) \div stake_info.total_staked_sol]_vars

\* C30: while total_staked_sol is 0 and the custodial balance exceeds the
\* last-observed value, a purchase or a buyback request fails as a whole and
\* changes no state.
C30_ObservationWithoutStakeFails ==
    [][(/\ outcome'.op \in {"purchase", "buyback_request"}
        /\ stake_info.total_staked_sol = 0
        /\ stake_pda_lamports > stake_info.last_tracked_sol_balance)
         => /\ outcome'.err # "Ok"
            /\ MachineState' = MachineState]_vars

\* a purchase that passed its price checks aborted on the observation of
\* rewards that arrived before anything was staked
C30_Witness ==
    /\ outcome.op = "purchase"
    /\ outcome.err = "Panic"
    /\ stake_info.total_staked_sol = 0
    /\ stake_info.total_sol_rewards_accrued = 0
    /\ stake_pda_lamports > stake_info.last_tracked_sol_balance

\* C31: redeem fails with NoRewardsToClaim and changes no state whenever the
\* global token index equals the principal's checkpoint, even with a positive
\* stored pending balance; a pending balance is paid only by a redeem whose
\* index-derived claim is positive.
C31_PendingNeedsPositiveClaim ==
    [][/\ (/\ outcome'.op = "redeem"
           /\ \A u \in Users :
                /\ user_stake_info[u].owner
                /\ stake_info.reward_per_token_lxr_stored
                      = user_stake_info[u].lxr_reward_per_token_completed)
            => /\ outcome'.err = "NoRewardsToClaim"
               /\ MachineState' = MachineState
       /\ RedeemOk(outcome')
            => /\ FullClaim(user_stake_info[outcome'.user],
                            stake_info.reward_per_token_lxr_stored) > 0
               /\ outcome'.paid
                     >= user_stake_info[outcome'.user].lxr_rewards_pending]_vars

\* a refused redeem of a principal whose checkpoint is at the index and whose
\* pending balance is positive, with the vault able to pay it
C31_Witness ==
    /\ outcome.op = "redeem"
    /\ outcome.err = "NoRewardsToClaim"
    /\ \E u \in Users :
         /\ user_stake_info[u].owner
         /\ user_stake_info[u].total_staked_sol > 0
         /\ user_stake_info[u].lxr_rewards_pending > 0
         /\ user_stake_info[u].lxr_rewards_pending <= luxor_reward_vault
         /\ stake_info.reward_per_token_lxr_stored
               = user_stake_info[u].lxr_reward_per_token_completed

\* C32: a buyback request splits out only rewards that no earlier request has
\* split out, so it never draws on staked principal: a custodial balance that
\* covers the rent and the staked total before a successful request still
\* covers them after it.
C32_RequestLeavesPrincipal ==
    [][(/\ outcome'.op = "buyback_request"
        /\ outcome'.err = "Ok"
        /\ stake_pda_lamports >= MinRent + stake_info.total_staked_sol)
         => stake_pda_lamports' >= MinRent + stake_info'.total_staked_sol]_vars

RECURSIVE SumOver(_, _)
SumOver(f, S) ==
    IF S = {} THEN 0
    ELSE LET u == CHOOSE x \in S : TRUE
         IN  f[u] + SumOver(f, S \ {u})

\* C34: the staked amounts of all principal records, the administrative sink
\* record included, add up to the aggregate total_staked_sol.
C34_StakedSumsToAggregate ==
    SumOver([u \in Users |-> user_stake_info[u].total_staked_sol], Users)
        + admin_stake_info.total_staked_sol
      = stake_info.total_staked_sol

\* a blacklisted principal has purchased again: both the sink record and a
\* principal record hold stake
C34_Witness ==
    /\ admin_stake_info.total_staked_sol > 0
    /\ \E u \in Users :
         /\ user_stake_info[u].total_staked_sol > 0
         /\ user_stake_info[u].blacklisted_sol > 0
    /\ stake_info.total_staked_sol > admin_stake_info.total_staked_sol

\* C35: the aggregate counters are the sums of the per-principal counters:
\* StakeInfo.total_lxr_claimed and total_lxr_forfeited equal the sums of the
\* records' total_lxr_claimed and total_lxr_forfeited.
C35_CountersSumToAggregate ==
    /\ SumOver([u \in Users |-> user_stake_info[u].total_lxr_claimed], Users)
          + admin_stake_info.total_lxr_claimed
        = stake_info.total_lxr_claimed
    /\ SumOver([u \in Users |-> user_stake_info[u].total_lxr_forfeited], Users)
          + admin_stake_info.total_lxr_forfeited
        = stake_info.total_lxr_forfeited

\* C36: every successful buyback request can be completed: with the
\* configuration unchanged and the sub-account holding exactly the split
\* amount plus its rent, the settlement of the request succeeds and returns
\* the machine to Idle.
C36_RequestCanBeSettled ==
    [][(/\ outcome'.op = "buyback_settle"
        /\ stake_info.buyback_requested
        /\ stake_split_lamports > MinRent)
         => /\ outcome'.err = "Ok"
            /\ ~stake_info'.buyback_requested]_vars

ObservingOps == {"purchase", "manual_purchase", "buyback_request"}

\* C37: after every successful purchase, manual purchase and buyback request
\* last_tracked_sol_balance is the custodial balance at the end of the
\* operation, and the operation adds to total_sol_rewards_accrued exactly the
\* amount by which the balance it found exceeded the last-observed value: a
\* deposit or a split-off amount is never counted as a reward.
C37_TrackedBalanceFollowsCustody ==
    [][(outcome'.op \in ObservingOps /\ outcome'.err = "Ok")
         => LET found == stake_pda_lamports - stake_info.last_tracked_sol_balance
            IN  /\ stake_info'.last_tracked_sol_balance = stake_pda_lamports'
                /\ stake_info'.total_sol_rewards_accrued
                      = stake_info.total_sol_rewards_accrued
                           + (IF found > 0 THEN found ELSE 0)]_vars

\* a purchase that found unobserved rewards in the stake account and added
\* its own deposit to it
C37_Witness ==
    /\ outcome.op = "purchase"
    /\ outcome.err = "Ok"
    /\ outcome.paid > 0
    /\ stake_info.total_stake_count = 2
    /\ stake_info.total_sol_rewards_accrued > 0
    /\ stake_info.total_sol_used_for_buyback = 0
    /\ stake_info.last_tracked_sol_balance = stake_pda_lamports
    /\ stake_pda_lamports
          = MinRent + stake_info.total_staked_sol + stake_info.total_sol_rewards_accrued

\* C38: successful buyback calls alternate request, settlement, request, ...:
\* each successful call flips buyback_requested and runs the branch the flag
\* selected; buyback_count grows by one in every settlement and changes in no
\* other step; the token index, total_luxor_rewards_accrued and
\* total_sol_used_for_buyback change only in a settlement that found the
\* flag set by a request.
C38_BuybackAlternates ==
    [][LET settled == outcome'.op = "buyback_settle" /\ outcome'.err = "Ok"
           requested == outcome'.op = "buyback_request" /\ outcome'.err = "Ok"
       IN  /\ settled => /\ stake_info.buyback_requested
                         /\ ~stake_info'.buyback_requested
                         /\ stake_info'.buyback_count = stake_info.buyback_count + 1
           /\ requested => /\ ~stake_info.buyback_requested
                           /\ stake_info'.buyback_requested
           /\ stake_info'.buyback_requested # stake_info.buyback_requested
                 => settled \/ requested
           /\ (\/ stake_info'.buyback_count # stake_info.buyback_count
               \/ stake_info'.reward_per_token_lxr_stored
                     # stake_info.reward_per_token_lxr_stored
               \/ stake_info'.total_luxor_rewards_accrued
                     # stake_info.total_luxor_rewards_accrued
               \/ stake_info'.total_sol_used_for_buyback
                     # stake_info.total_sol_used_for_buyback)
                 => settled /\ stake_info.buyback_requested]_vars

\* a request accepted after one completed cycle
C38_Witness ==
    /\ outcome.op = "buyback_request"
    /\ outcome.err = "Ok"
    /\ stake_info.buyback_requested
    /\ stake_info.buyback_count = 1
    /\ stake_info.total_sol_used_for_buyback > 0
    /\ stake_info.reward_per_token_lxr_stored > 0

\* a principal whose record exists and holds no stake
Barred(u) == user_stake_info[u].owner /\ user_stake_info[u].total_staked_sol = 0

PurchaseOps == {"purchase", "manual_purchase"}

\* C39: a blacklist leaves the principal's record without stake; the record
\* stays so through every step other than a successful purchase; and while
\* it is so every redeem fails with NoRewardsToClaim and moves no token,
\* whatever the index has become through settled buybacks.
C39_BlacklistedRedeemsNothing ==
    [][/\ (outcome'.op = "blacklist" /\ outcome'.err = "Ok")
             => /\ user_stake_info'[outcome'.user].total_staked_sol = 0
                /\ user_stake_info'[outcome'.user].lxr_rewards_pending = 0
       /\ \A u \in Users :
             (Barred(u) /\ ~(outcome'.op \in PurchaseOps /\ outcome'.err = "Ok"))
                => user_stake_info'[u].total_staked_sol = 0
       /\ (outcome'.op = "redeem" /\ outcome'.err = "Ok")
             => ~Barred(outcome'.user)
       /\ (outcome'.op = "redeem" /\ \A u \in Users : Barred(u))
             => /\ outcome'.err = "NoRewardsToClaim"
                /\ luxor_reward_vault' = luxor_reward_vault
                /\ luxor_vault' = luxor_vault
                /\ stake_info' = stake_info]_vars

\* a blacklisted principal refused after a buyback was settled past its
\* checkpoint
C39_Witness ==
    /\ outcome.op = "redeem"
    /\ outcome.err = "NoRewardsToClaim"
    /\ \A u \in Users :
          /\ Barred(u)
          /\ user_stake_info[u].blacklisted_sol > 0
          /\ stake_info.reward_per_token_lxr_stored
                > user_stake_info[u].lxr_reward_per_token_completed
    /\ admin_stake_info.total_staked_sol > 0
    /\ luxor_reward_vault > 0

\* C40: the record a first purchase or manual purchase creates starts with
\* its checkpoint at the current global token index and nothing pending; a
\* record's checkpoint never moves back; and a redeem by a record whose
\* checkpoint is at the index fails with NoRewardsToClaim and moves no
\* token, so what a record is paid never includes a settlement made before
\* the record existed.
C40_NewRecordStartsAtIndex ==
    [][/\ \A u \in Users :
             /\ (/\ outcome'.op \in PurchaseOps /\ outcome'.err = "Ok"
                 /\ outcome'.user = u /\ ~user_stake_info[u].owner)
                   => /\ user_stake_info'[u].owner
                      /\ user_stake_info'[u].lxr_reward_per_token_completed
                            = stake_info.reward_per_token_lxr_stored
                      /\ stake_info'.reward_per_token_lxr_stored
                            = stake_info.reward_per_token_lxr_stored
                      /\ user_stake_info'[u].lxr_rewards_pending = 0
             /\ user_stake_info[u].owner
                   => user_stake_info'[u].lxr_reward_per_token_completed
                         >= user_stake_info[u].lxr_reward_per_token_completed
       /\ (outcome'.op = "redeem" /\ outcome'.err = "Ok")
             => /\ stake_info.reward_per_token_lxr_stored
                      > user_stake_info[outcome'.user].lxr_reward_per_token_completed
                /\ outcome'.claim
                      = lxr_rewards_to_claim(
                            user_stake_info[outcome'.user].total_staked_sol,
                            stake_info.reward_per_token_lxr_stored
                               - user_stake_info[outcome'.user].lxr_reward_per_token_completed)
       /\ (/\ outcome'.op = "redeem"
           /\ \A u \in Users :
                 /\ user_stake_info[u].owner
                 /\ user_stake_info[u].lxr_reward_per_token_completed
                       = stake_info.reward_per_token_lxr_stored)
             => /\ outcome'.err = "NoRewardsToClaim"
                /\ luxor_reward_vault' = luxor_reward_vault
                /\ luxor_vault' = luxor_vault
                /\ stake_info' = stake_info]_vars

\* a newcomer with stake, refused while the reward vault still holds the
\* tokens of the settlement made before its record existed
C40_Witness ==
    /\ outcome.op = "redeem"
    /\ outcome.err = "NoRewardsToClaim"
    /\ stake_info.reward_per_token_lxr_stored > 0
    /\ stake_info.buyback_count = 1
    /\ luxor_reward_vault > 0
    /\ \A u \in Users :
          /\ user_stake_info[u].owner
          /\ user_stake_info[u].total_staked_sol > 0
          /\ user_stake_info[u].lxr_reward_per_token_completed
                = stake_info.reward_per_token_lxr_stored

====
